---- MODULE Spec2Model ----
(***************************************************************************)
(* A model of metaPhase's graph transformation (metaphase/transform.py)    *)
(* and of its consensus/distance primitive (flye_consensus.py).            *)
(*                                                                         *)
(* The module holds several specifications over one set of variables:      *)
(*   SpecDist   cluster_distance_via_alignment on bounded consensus results *)
(*   SpecCons   flye_consensus calls and their temporary files              *)
(*   SpecNested remove_nested applied to bounded adjacency graphs           *)
(*   SpecCut    find_full_paths, add_path_edges, add_child_edge on an edge  *)
(*   SpecMain   transform_main: Phase 1 and Phase 2 over the edge list      *)
(* Each specification leaves the variables of the others at their idle      *)
(* values.                                                                  *)
(***************************************************************************)
EXTENDS Integers, Sequences, FiniteSets, TLC

VARIABLES
    \* cluster_distance_via_alignment (flye_consensus.py)
    first_cl_dict, second_cl_dict, dist,
    \* flye_consensus (flye_consensus.py): the temporary files on disk, the
    \* polisher invocations per (edge, cluster), how the last call ended and
    \* for which key, and the position inside cluster_distance_via_alignment
    files, polish_calls, last_exit, last_key, dist_pc,
    \* remove_nested (transform.py) applied repeatedly: the graph, the interval
    \* table, the number of applications so far and the node set left by the
    \* first application
    nest_G, nest_cons, nest_runs, nest_first,
    \* transform_main (transform.py): the edge list and what the input files
    \* hold for every edge, the assembly graph and its topology as read at
    \* the start (gfa_to_nx), the module's global tables, the locals of the
    \* running graph_create_unitigs call, the position of the run, and the
    \* edges for which graph_create_unitigs has returned
    edges, inp, graph, topology,
    full_cl, full_paths, link_clusters, link_clusters_src, link_clusters_sink,
    remove_clusters, remove_zeroes,
    frame, pc, created

distVars == <<first_cl_dict, second_cl_dict, dist>>
consVars == <<files, polish_calls, last_exit, last_key, dist_pc>>
nestVars == <<nest_G, nest_cons, nest_runs, nest_first>>
tableVars == <<link_clusters, link_clusters_src, link_clusters_sink, remove_clusters>>
transVars == <<edges, inp, graph, topology, full_cl, full_paths, tableVars,
               remove_zeroes, frame, pc, created>>
vars == <<distVars, consVars, nestVars, transVars>>

(***************************************************************************)
(* Bounds                                                                  *)
(***************************************************************************)
\* longest consensus sequence drawn for a distance computation
MaxSeqLen == 3
\* largest reference coordinate of a consensus interval in a distance computation
MaxCoord == 3
\* most polisher invocations followed per (edge, cluster) key
MaxCalls == 2
CutLen == 4
CutClusters == 3
CutMaxAdj == 2
MainLen == 3
EdgeLen == 4
EdgeClusters == 2
PatchLen == 2
\* nodes of the adjacency graphs remove_nested is applied to
NestNodes == 3
\* largest Start/Stop of the interval tables remove_nested is applied to
NestMaxPos == 4
\* applications of remove_nested to one graph
NestRuns == 2

(***************************************************************************)
(* Python helpers                                                          *)
(***************************************************************************)
\* F applied to the value of v; v is computed once
With(v, F(_)) == CHOOSE r \in {F(x) : x \in {v}} : TRUE

Max2(a, b) == IF a >= b THEN a ELSE b
Min2(a, b) == IF a <= b THEN a ELSE b

\* s[a:b] of a Python sequence: negative indices count from the end, both
\* ends are clamped to the sequence, an empty range gives the empty sequence
PyIndexClamp(i, n) == IF i < 0 THEN Max2(i + n, 0) ELSE Min2(i, n)
PySlice(s, a, b) ==
    LET lo == PyIndexClamp(a, Len(s))
        hi == PyIndexClamp(b, Len(s))
    IN  IF lo < hi THEN SubSeq(s, lo + 1, hi) ELSE <<>>

(***************************************************************************)
(* flye_consensus.py: cluster_distance_via_alignment                       *)
(***************************************************************************)
Alphabet == {"A", "C"}

RECURSIVE SeqsOfLen(_)
SeqsOfLen(n) ==
    IF n = 0 THEN {<<>>}
    ELSE {Append(s, b) : s \in SeqsOfLen(n - 1), b \in Alphabet}

SeqsUpTo(n) == UNION {SeqsOfLen(k) : k \in 0..n}

\* what flye_consensus returns: {'consensus', 'start', 'end'}; extract_reads
\* gives start = end = -1 when no read of the cluster maps to the edge, and
\* start < end otherwise; the polished sequence may be shorter or longer than
\* the interval, and is empty when the polisher failed
ConsensusIntervals ==
    {<<a, b>> \in (0..MaxCoord) \X (0..MaxCoord) : a < b} \cup {<<-1, -1>>}

ConsensusResults ==
    {[consensus |-> s, start |-> iv[1], end |-> iv[2]] :
        s \in SeqsUpTo(MaxSeqLen), iv \in ConsensusIntervals}

intersection_start(first, second) == Max2(first.start, second.start)
intersection_end(first, second) == Min2(first.end, second.end)

first_consensus_clipped(first, second) ==
    PySlice(first.consensus,
            intersection_start(first, second) - first.start,
            intersection_end(first, second) - first.start)

second_consensus_clipped_swapped(first, second) ==
    PySlice(second.consensus,
            intersection_start(first, second) - first.start,
            intersection_end(first, second) - first.start)

second_consensus_clipped(first, second) ==
    PySlice(second.consensus,
            intersection_start(first, second) - second.start,
            intersection_end(first, second) - second.start)

\* the test that selects the sentinel return
degenerate_and(first, second) ==
    /\ intersection_end(first, second) - intersection_start(first, second) < 1
    /\ Len(first_consensus_clipped(first, second)) = 0
    /\ Len(second_consensus_clipped(first, second)) = 0

degenerate(first, second) ==
    \/ intersection_end(first, second) - intersection_start(first, second) < 1
    \/ Len(first_consensus_clipped(first, second)) = 0
    \/ Len(second_consensus_clipped(first, second)) = 0

match_score == 1
mismatch_score == -1
gap_score == -1

\* best score of a global alignment of a[1..i] with b[1..j] (end gaps cost
\* gap_score like every other gap)
RECURSIVE GlobalScore(_, _, _, _)
GlobalScore(a, b, i, j) ==
    IF i = 0 THEN j * gap_score
    ELSE IF j = 0 THEN i * gap_score
    ELSE LET sub == IF a[i] = b[j] THEN match_score ELSE mismatch_score
             d == GlobalScore(a, b, i - 1, j - 1) + sub
             u == GlobalScore(a, b, i - 1, j) + gap_score
             l == GlobalScore(a, b, i, j - 1) + gap_score
         IN  Max2(d, Max2(u, l))

\* aligner.align(a, b)[0].score; the aligner raises ValueError on a sequence
\* of length zero
AlignRaises(a, b) == Len(a) = 0 \/ Len(b) = 0
AlignScore(a, b) == GlobalScore(a, b, Len(a), Len(b))

\* The value returned, as the exact fraction num / den.  kind is "sentinel"
\* (return 1 before the aligner is built), "aligned" (1 - score / length) or
\* "raised" (an exception left the function).
NoDistance == [kind |-> "none", num |-> 0, den |-> 1]
Sentinel == [kind |-> "sentinel", num |-> 1, den |-> 1]

cluster_distance_via_alignment(first, second) ==
    LET ilen == intersection_end(first, second) - intersection_start(first, second)
        c1 == first_consensus_clipped(first, second)
        c2 == second_consensus_clipped(first, second)
    IN  IF degenerate(first, second) THEN Sentinel
        ELSE IF AlignRaises(c1, c2) THEN [kind |-> "raised", num |-> 0, den |-> 1]
        ELSE [kind |-> "aligned", num |-> ilen - AlignScore(c1, c2), den |-> ilen]

(***************************************************************************)
(* transform.py: the adjacency graph (a networkx DiGraph) and remove_nested *)
(***************************************************************************)
\* a DiGraph: its nodes and its directed edges <<from, to>>
EmptyGraph == [nodes |-> {}, edges |-> {}]

\* G.remove_node(n): the node and every edge at it
RemoveNode(G, n) ==
    [nodes |-> G.nodes \ {n},
     edges |-> {e \in G.edges : e[1] # n /\ e[2] # n}]

RemoveNodes(G, S) ==
    [nodes |-> G.nodes \ S,
     edges |-> {e \in G.edges : e[1] \notin S /\ e[2] \notin S}]

\* nx.all_neighbors(G, node): predecessors and successors
AllNeighbors(G, node) ==
    {m \in G.nodes : <<m, node>> \in G.edges \/ <<node, m>> \in G.edges}

\* the elements of a finite set of integers in increasing order (the order in
\* which the nodes were inserted: the order of the cluster ids)
SortedSeq(S) ==
    [k \in 1..Cardinality(S) |->
        CHOOSE x \in S : Cardinality({y \in S : y < x}) = k - 1]

\* line 137: node's interval strictly contains neighbor's interval
StrictlyContains(cons, node, neighbor) ==
    /\ cons[node].Start < cons[neighbor].Start
    /\ cons[node].Stop > cons[neighbor].Stop

\* the neighbors removed while one node is processed, had the neighbors not
\* been copied into a list first: the first removal would end the iteration
nested_neighbors_first_only(G, cons, node) ==
    LET all == {m \in AllNeighbors(G, node) : StrictlyContains(cons, node, m)}
    IN  IF all = {} THEN {} ELSE {CHOOSE x \in all : \A y \in all : x <= y}

\* lines 135-149: the neighbors removed while one node is processed (the
\* neighbors are copied into a list before any is removed)
nested_neighbors(G, cons, node) ==
    {m \in AllNeighbors(G, node) : StrictlyContains(cons, node, m)}

\* lines 132-151: the loop over the nodes listed before the first removal; a
\* node removed meanwhile is skipped (all_neighbors raises, except: continue)
RECURSIVE remove_nested_from(_, _, _, _)
remove_nested_from(G, cons, nodes, i) ==
    IF i > Len(nodes) THEN G
    ELSE With(IF nodes[i] \in G.nodes
              THEN RemoveNodes(G, nested_neighbors(G, cons, nodes[i]))
              ELSE G,
              LAMBDA G2 : remove_nested_from(G2, cons, nodes, i + 1))

remove_nested(G, cons) ==
    With(G, LAMBDA G0 : remove_nested_from(G0, cons, SortedSeq(G0.nodes), 1))

(***************************************************************************)
(* transform.py: values shared by the operators below                      *)
(***************************************************************************)
\* Python's None, and an integer held where None may be held too
None == <<>>
Some(v) == <<v>>
Val(x) == x[1]

Range(s) == {s[k] : k \in DOMAIN s}
InList(x, s) == \E k \in DOMAIN s : s[k] = x

\* list.remove(x) of a list holding x: the first occurrence goes
ListRemove(s, x) ==
    LET k == CHOOSE j \in DOMAIN s : s[j] = x /\ \A h \in 1..(j - 1) : s[h] # x
    IN  SubSeq(s, 1, k - 1) \o SubSeq(s, k + 1, Len(s))

\* path.index(x) for x in path, counted from 1
IndexOf(path, x) == CHOOSE j \in DOMAIN path : path[j] = x /\ \A h \in 1..(j - 1) : path[h] # x

\* the concatenation of a sequence of sequences
RECURSIVE FlattenFrom(_, _)
FlattenFrom(ss, k) ==
    IF k > Len(ss) THEN <<>> ELSE ss[k] \o FlattenFrom(ss, k + 1)
Flatten(ss) == FlattenFrom(ss, 1)

\* thresholds of metaphase.params, scaled to the small edges of the model
start_end_gap == 1
strong_cluster_min_reads == 1

\* the name of a graph segment: <<edge, 0>> is the edge itself, <<edge, c>>
\* the child segment "edge_c" of cluster c
SegName(edge, clN) == <<edge, clN>>

\* the bases of a sequence are named by the edge position they stand for
Positions(a, b) == [k \in 1..(b - a) |-> a + k - 1]

(***************************************************************************)
(* transform.py: add_child_edge                                            *)
(***************************************************************************)
\* lines 48-55: the sequence of the child segment
child_seq(consensus, main_seq, left, right) ==
    IF consensus.start > left
    THEN PySlice(main_seq, left, consensus.start)
            \o PySlice(consensus.consensus, 0, right - consensus.start + 1)
    ELSE PySlice(consensus.consensus, left - consensus.start, right - consensus.start + 1)

\* add_child_edge on the world w = [graph, remove_zeroes, raised]; left and
\* right are None or Some(v).  A None cut raises TypeError in the comparison
\* or the slice arithmetic; g.add_line raises NotUniqueError when the segment
\* exists already.  Nothing in the callers catches either.
add_child_edge(w, edge, clN, left, right, cov, consensus) ==
    IF w.raised THEN w
    ELSE IF left = None \/ right = None THEN [w EXCEPT !.raised = TRUE]
    ELSE LET seq == child_seq(consensus, w.graph.segments[SegName(edge, 0)].sequence,
                              Val(left), Val(right))
             name == SegName(edge, clN)
         IN  IF Len(seq) = 0
             THEN [w EXCEPT !.remove_zeroes = Append(@, name)]
             ELSE IF name \in DOMAIN w.graph.segments
             THEN [w EXCEPT !.raised = TRUE]
             ELSE [w EXCEPT !.graph.segments =
                        @ @@ (name :> [sequence |-> seq, dp |-> cov])]

(***************************************************************************)
(* transform.py: build_paths_graph and find_full_paths                     *)
(***************************************************************************)
Successors(G, node) == {m \in G.nodes : <<node, m>> \in G.edges}

\* lines 89-103: node_remove, in the order in which the two loops append
RECURSIVE node_remove_leafs(_, _, _)
node_remove_leafs(G, leafs, k) ==
    IF k > Len(leafs) * Len(leafs) THEN <<>>
    ELSE LET node == leafs[((k - 1) \div Len(leafs)) + 1]
             neighbor == leafs[((k - 1) % Len(leafs)) + 1]
         IN  (IF node # neighbor /\ <<node, neighbor>> \in G.edges
              THEN <<neighbor>> ELSE <<>>)
             \o node_remove_leafs(G, leafs, k + 1)

RECURSIVE node_remove_roots(_, _, _)
node_remove_roots(G, roots, k) ==
    IF k > Len(roots) * Len(roots) THEN <<>>
    ELSE LET node == roots[((k - 1) \div Len(roots)) + 1]
             neighbor == roots[((k - 1) % Len(roots)) + 1]
         IN  (IF node # neighbor /\ <<neighbor, node>> \in G.edges
              THEN <<neighbor>> ELSE <<>>)
             \o node_remove_roots(G, roots, k + 1)

\* lines 106-113 on s = [G, roots, leafs]: remove_node raises for a node that
\* is gone, roots.remove raises for a node that is no root, and either ends
\* the iteration for that node before leafs.remove is reached
RECURSIVE remove_nodes_listed(_, _)
remove_nodes_listed(s, node_remove) ==
    IF node_remove = <<>> THEN s
    ELSE With(<<s, Head(node_remove)>>, LAMBDA a :
            LET t == a[1]
                node == a[2]
            IN  remove_nodes_listed(
                    IF node \notin t.G.nodes THEN t
                    ELSE IF ~InList(node, t.roots)
                    THEN [t EXCEPT !.G = RemoveNode(@, node)]
                    ELSE [G |-> RemoveNode(t.G, node),
                          roots |-> ListRemove(t.roots, node),
                          leafs |-> IF InList(node, t.leafs)
                                    THEN ListRemove(t.leafs, node) ELSE t.leafs],
                    Tail(node_remove)))

\* lines 115-126: the first edge of every three-node simple path between a
\* node and one of its neighbors
path_remove(G) ==
    {<<a, x>> \in G.edges :
        \E c \in AllNeighbors(G, a) :
            /\ x # a /\ x # c /\ a # c
            /\ <<x, c>> \in G.edges}

\* lines 74-127; M is the adjacency that build_adj_matrix_clusters and
\* change_w yield for the edge, as a set of ordered pairs of clusters
build_paths_graph(M, clusters, cons, roots, leafs) ==
    With([nodes |-> clusters \ {0},
          edges |-> {e \in M : e[1] # e[2] /\ e[1] # 0 /\ e[2] # 0}],
         LAMBDA G0 :
            With(remove_nodes_listed(
                    [G |-> remove_nested(G0, cons), roots |-> roots, leafs |-> leafs],
                    node_remove_leafs(G0, leafs, 1) \o node_remove_roots(G0, roots, 1)),
                 LAMBDA s :
                    [s EXCEPT !.G = [nodes |-> s.G.nodes,
                                     edges |-> s.G.edges \ path_remove(s.G)]]))

\* nx.all_simple_paths(G, source, targets) of networkx 2: the simple paths
\* that end in a target, in the order of a depth-first search that takes
\* the successors in insertion (cluster id) order
RECURSIVE dfs_paths(_, _, _, _)
dfs_paths(G, visited, targets, children) ==
    IF children = <<>> THEN <<>>
    ELSE With(<<visited, Head(children), Tail(children)>>, LAMBDA a :
            LET child == a[2]
                rest == dfs_paths(G, a[1], targets, a[3])
            IN  IF InList(child, a[1]) THEN rest
                ELSE (IF child \in targets THEN <<Append(a[1], child)>> ELSE <<>>)
                     \o dfs_paths(G, Append(a[1], child), targets,
                                  SortedSeq(Successors(G, child)))
                     \o rest)

all_simple_paths(G, source, targets) ==
    IF source \in targets THEN <<>>
    ELSE dfs_paths(G, <<source>>, targets, SortedSeq(Successors(G, source)))

\* lines 201-213: a root that is no node of G makes all_simple_paths raise,
\* the bare except swallows it, and list(paths_nx) then reads the generator
\* of the previous root (exhausted: no path), or an unbound name when the
\* root is the first one (UnboundLocalError, uncaught)
RECURSIVE find_full_paths_from(_, _, _, _)
find_full_paths_from(G, roots, leafs, k) ==
    IF k > Len(roots) THEN [raised |-> FALSE, paths |-> <<>>]
    ELSE LET root == roots[k]
             tail == find_full_paths_from(G, roots, leafs, k + 1)
         IN  IF root \notin G.nodes
             THEN IF k = 1 THEN [raised |-> TRUE, paths |-> <<>>] ELSE tail
             ELSE [tail EXCEPT !.paths = all_simple_paths(G, root, Range(leafs)) \o @]

find_full_paths(G, roots, leafs) == find_full_paths_from(G, roots, leafs, 1)

(***************************************************************************)
(* transform.py: add_path_edges                                            *)
(***************************************************************************)
\* lines 240-245 on s = [roots, leafs]: roots.remove raises for a cluster
\* that is no root, and leafs.remove is then skipped
RECURSIVE remove_full_clusters(_, _)
remove_full_clusters(s, full_clusters) ==
    IF full_clusters = <<>> THEN s
    ELSE With(<<s, Head(full_clusters)>>, LAMBDA a :
            LET t == a[1]
                node == a[2]
            IN  remove_full_clusters(
                    IF ~InList(node, t.roots) THEN t
                    ELSE [roots |-> ListRemove(t.roots, node),
                          leafs |-> IF InList(node, t.leafs)
                                    THEN ListRemove(t.leafs, node) ELSE t.leafs],
                    Tail(full_clusters)))

\* line 266: the path clusters sorted by Stop; the sort is stable and
\* starts from the order of set(path_cl)
order_by_stop_pos(S, cons) ==
    [k \in 1..Cardinality(S) |->
        CHOOSE x \in S :
            Cardinality({y \in S : \/ cons[y].Stop < cons[x].Stop
                                   \/ cons[y].Stop = cons[x].Stop /\ y < x}) = k - 1]

\* path[path.index(n) + 1] and path[path.index(n) - 1] under the try blocks
\* of lines 284-311, as a list of no or one cluster
succ_in(path, n) ==
    IF InList(n, path) /\ IndexOf(path, n) < Len(path)
    THEN <<path[IndexOf(path, n) + 1]>> ELSE <<>>
pred_in(path, n) ==
    IF InList(n, path) /\ IndexOf(path, n) > 1
    THEN <<path[IndexOf(path, n) - 1]>> ELSE <<>>

RECURSIVE succs_unvisited(_, _, _)
succs_unvisited(paths, n, visited) ==
    IF paths = <<>> THEN <<>>
    ELSE SelectSeq(succ_in(Head(paths), n), LAMBDA x : x \notin visited)
            \o succs_unvisited(Tail(paths), n, visited)

RECURSIVE preds_unvisited(_, _, _)
preds_unvisited(paths, n, visited) ==
    IF paths = <<>> THEN <<>>
    ELSE SelectSeq(pred_in(Head(paths), n), LAMBDA x : x \notin visited)
            \o preds_unvisited(Tail(paths), n, visited)

\* lines 290-311 on s = [Q, L, R, visited]: Q is popped at its right end
RECURSIVE border_closure(_, _)
border_closure(paths, s) ==
    IF s.Q = <<>> THEN [L |-> s.L, R |-> s.R]
    ELSE With(s, LAMBDA t :
            LET n == t.Q[Len(t.Q)]
                Q1 == SubSeq(t.Q, 1, Len(t.Q) - 1)
                vis == t.visited \cup {n}
            IN  IF n \in t.L
                THEN With(preds_unvisited(paths, n, vis), LAMBDA new :
                        border_closure(paths, [Q |-> Q1 \o new, L |-> t.L,
                                               R |-> t.R \cup Range(new),
                                               visited |-> vis]))
                ELSE With(succs_unvisited(paths, n, vis), LAMBDA new :
                        border_closure(paths, [Q |-> Q1 \o new,
                                               L |-> t.L \cup Range(new),
                                               R |-> t.R, visited |-> vis])))

SetMax(S) == CHOOSE x \in S : \A y \in S : y <= x
SetMin(S) == CHOOSE x \in S : \A y \in S : x <= y

\* line 327
border_of(l_borders, r_borders) ==
    SetMax(l_borders) + ((SetMin(r_borders) - SetMax(l_borders)) \div 2)

\* lines 275-331 on s = [cut_l, cut_r, raised], one member after the other;
\* max([]) and min([]) raise ValueError, which nothing catches
RECURSIVE resolve_cuts(_, _, _, _, _, _)
resolve_cuts(s, order, k, paths, leafs, cons) ==
    IF k > Len(order) \/ s.raised THEN s
    ELSE With(<<s, order[k], succs_unvisited(paths, order[k], {})>>, LAMBDA a :
          With(border_closure(paths, [Q |-> a[3], L |-> Range(a[3]), R |-> {},
                                      visited |-> {}]), LAMBDA c :
            LET t == a[1]
                member == a[2]
                l_borders == {cons[i].Start : i \in c.L}
                r_borders == {cons[i].Stop : i \in c.R}
            IN  resolve_cuts(
                  IF ~(t.cut_l[member] # None
                       /\ (t.cut_r[member] = None \/ InList(member, leafs)))
                  THEN t
                  ELSE IF ~InList(member, leafs) /\ (c.L = {} \/ c.R = {})
                  THEN [t EXCEPT !.raised = TRUE]
                  ELSE With(IF InList(member, leafs) THEN t.cut_r[member]
                            ELSE Some(border_of(l_borders, r_borders)),
                            LAMBDA border :
                              [cut_l |-> [i \in DOMAIN t.cut_l |->
                                            IF i \in c.L THEN border ELSE t.cut_l[i]],
                               cut_r |-> [i \in DOMAIN t.cut_r |->
                                            IF i \in c.R THEN border ELSE t.cut_r[i]],
                               raised |-> FALSE]),
                  order, k + 1, paths, leafs, cons)))

\* lines 333-340: path[path.index(member) - 1] is the last cluster of the
\* path when member is its first; the last path that holds member decides
fallback_cut_l(cut_l, cut_r, paths, member) ==
    LET holding == {j \in DOMAIN paths : InList(member, paths[j])}
        path == paths[SetMax(holding)]
        idx == IndexOf(path, member)
    IN  IF cut_l[member] # None \/ holding = {} THEN cut_l[member]
        ELSE cut_r[IF idx = 1 THEN path[Len(path)] ELSE path[idx - 1]]

\* the paths kept as they are, the cluster still on them
drop_from_paths_kept(paths, path_cluster) == paths

\* list.remove(path_cluster) on every path that holds it (lines 346-350)
drop_from_paths(paths, path_cluster) ==
    [j \in DOMAIN paths |->
        IF InList(path_cluster, paths[j]) THEN ListRemove(paths[j], path_cluster)
        ELSE paths[j]]

\* lines 342-351 on s = [w, paths, G], one path cluster after the other
RECURSIVE materialize(_, _, _, _, _, _, _)
materialize(s, todo, edge, cut_l, cut_r, cons, consensus) ==
    IF todo = <<>> \/ s.w.raised THEN s
    ELSE With(<<s, Head(todo)>>, LAMBDA a :
            LET t == a[1]
                path_cluster == a[2]
            IN  materialize(
                  IF cut_l[path_cluster] # cut_r[path_cluster]
                  THEN [t EXCEPT !.w = add_child_edge(@, edge, path_cluster,
                                           cut_l[path_cluster], cut_r[path_cluster],
                                           cons[path_cluster].Cov,
                                           consensus[path_cluster])]
                  ELSE [t EXCEPT !.paths = drop_from_paths(@, path_cluster),
                                 !.G = RemoveNode(@, path_cluster)],
                  Tail(todo), edge, cut_l, cut_r, cons, consensus))

\* lines 236-354; the result holds the world, the updated paths, roots,
\* leafs and G, and the cut tables as they stand when the function ends
add_path_edges(w, edge, ln, paths, G, paths_roots, paths_leafs, full_clusters, cons, consensus) ==
    With(<<remove_full_clusters([roots |-> paths_roots, leafs |-> paths_leafs],
                                full_clusters),
           Range(Flatten(paths))>>, LAMBDA a :
      LET rl == a[1]
          path_cl == a[2]
          cut_l_unsorted == [c \in path_cl |->
              IF InList(c, rl.roots) /\ cons[c].Start < start_end_gap
              THEN Some(cons[c].Start) ELSE None]
          cut_r_unsorted == [c \in path_cl |->
              IF InList(c, rl.leafs) THEN Some(ln - 1) ELSE None]
      IN  With(resolve_cuts([cut_l |-> cut_l_unsorted, cut_r |-> cut_r_unsorted,
                             raised |-> FALSE],
                            order_by_stop_pos(path_cl, cons), 1, paths, rl.leafs, cons),
               LAMBDA r :
                 IF r.raised
                 THEN [w |-> [w EXCEPT !.raised = TRUE], paths |-> paths, G |-> G,
                       roots |-> rl.roots, leafs |-> rl.leafs,
                       cut_l |-> r.cut_l, cut_r |-> r.cut_r]
                 ELSE With([c \in path_cl |-> fallback_cut_l(r.cut_l, r.cut_r, paths, c)],
                           LAMBDA cut_l :
                             With(materialize([w |-> w, paths |-> paths, G |-> G],
                                              SortedSeq(path_cl), edge, cut_l, r.cut_r,
                                              cons, consensus),
                                  LAMBDA m :
                                    [w |-> m.w, paths |-> m.paths, G |-> m.G,
                                     roots |-> rl.roots, leafs |-> rl.leafs,
                                     cut_l |-> cut_l, cut_r |-> r.cut_r]))))

(***************************************************************************)
(* transform.py: add_link, add_path_links, change_cov                      *)
(***************************************************************************)
\* a dovetail link of the graph; the overlap and the tags are left out
Link(fr, fr_or, to, to_or) ==
    [from |-> fr, from_or |-> fr_or, to |-> to, to_or |-> to_or]

\* lines 216-221: a link that exists already is kept as it is
add_link(links, fr, fr_or, to, to_or) == links \cup {Link(fr, fr_or, to, to_or)}

\* lines 224-233
add_path_links(links, edge, paths) ==
    links \cup UNION {{Link(SegName(edge, paths[j][k]), "+",
                            SegName(edge, paths[j][k + 1]), "+") :
                          k \in 1..(Len(paths[j]) - 1)} : j \in DOMAIN paths}

\* thresholds of metaphase.params for the parental edge
parental_min_len_num == 7
parental_min_len_den == 10
parental_min_coverage == 6

\* round(n / d) of Python for d > 0: to the nearest integer, halves to even
Round(n, d) ==
    LET q == n \div d
        r == n % d
    IN  IF 2 * r < d THEN q
        ELSE IF 2 * r > d THEN q + 1
        ELSE IF q % 2 = 0 THEN q ELSE q + 1

RECURSIVE SumOver(_, _)
SumOver(S, f) ==
    IF S = {} THEN 0
    ELSE With(CHOOSE y \in S : TRUE, LAMBDA x : f[x] + SumOver(S \ {x}, f))

\* lines 357-369: the coverage left on the edge, as the numerator over ln,
\* and whether the edge is put on remove_clusters
change_cov(cons, ln, clusters, othercl) ==
    LET cov == SumOver(othercl, [i \in othercl |->
                          cons[i].Cov * (cons[i].Stop - cons[i].Start)])
        len_cl == UNION {cons[i].Start..(cons[i].Stop - 1) : i \in othercl}
    IN  [cov |-> cov,
         remove |-> /\ Cardinality(len_cl) * parental_min_len_den
                          < parental_min_len_num * ln
                    /\ Cardinality(clusters) - Cardinality(othercl) # 0]

\* lines 390-397: the list seq, a copy of the segment's sequence, after the
\* loop over the consensus of the merged reads; key is a position counted
\* from 1, so seq[int(key) - 1] is the key-th element
patched_seq(sequence, items) ==
    [k \in DOMAIN sequence |-> IF k \in DOMAIN items THEN items[k] ELSE sequence[k]]

\* lines 382-397: change_sec builds the list seq and returns; no statement
\* assigns it to the segment, so the graph is left as it was
change_sec(g, edge, items) ==
    LET seq == patched_seq(g.segments[SegName(edge, 0)].sequence, items)
    IN  g

(***************************************************************************)
(* transform.py: strong_tail and the pieces of graph_create_unitigs        *)
(***************************************************************************)
\* lines 423-441; tails[cluster] holds count_start and count_stop as the
\* loop over the cluster's reads leaves them (0 for None)
strong_tail(tails, cluster) ==
    <<tails[cluster].start > strong_cluster_min_reads,
      tails[cluster].stop > strong_cluster_min_reads>>

\* lines 498-515 on s = [w, cons, full_clusters, roots, leafs], one cluster
\* after the other
RECURSIVE classify(_, _, _, _, _, _)
classify(s, todo, edge, ln, tails, consensus) ==
    IF todo = <<>> \/ s.w.raised THEN s
    ELSE With(<<s, Head(todo)>>, LAMBDA a :
            LET t == a[1]
                cluster == a[2]
                clStart == t.cons[cluster].Start
                clStop == t.cons[cluster].Stop
                st == strong_tail(tails, cluster)
                s1 == IF ~(clStart < start_end_gap /\ clStop > ln - start_end_gap)
                      THEN t
                      ELSE IF st[1] /\ st[2]
                      THEN [t EXCEPT
                              !.w = add_child_edge(@, edge, cluster,
                                        Some(consensus[cluster].start),
                                        Some(consensus[cluster].end),
                                        t.cons[cluster].Cov, consensus[cluster]),
                              !.full_clusters = Append(@, cluster)]
                      ELSE IF ~st[1]
                      THEN [t EXCEPT !.cons[cluster].Start = @ + start_end_gap + 1]
                      ELSE [t EXCEPT !.cons[cluster].Stop = @ - start_end_gap - 1]
            IN  classify([s1 EXCEPT
                            !.roots = IF clStart < start_end_gap /\ st[1]
                                      THEN Append(@, cluster) ELSE @,
                            !.leafs = IF clStop > ln - start_end_gap /\ st[2]
                                      THEN Append(@, cluster) ELSE @],
                         Tail(todo), edge, ln, tails, consensus))

\* lines 531-546: the clusters that stay with the parental edge; the
\* neighbors are taken in the graph that line 535 builds from M again
other_clusters(clusters, M, full_clusters, paths) ==
    LET path_nodes == Range(Flatten(paths))
        othercl == (clusters \ Range(full_clusters)) \ path_nodes
        G == [nodes |-> clusters, edges |-> M]
    IN  {c \in othercl :
            AllNeighbors(G, c) \cap (Range(full_clusters) \cup path_nodes) = {}}

\* lines 555-562: the three link tables of the edge
link_table(full_clusters, ends, paths) ==
    full_clusters \o SortedSeq(Range(ends) \cap Range(Flatten(paths)))

\* d[k] = v of a Python dict
DictSet(d, k, v) == [x \in DOMAIN d \cup {k} |-> IF x = k THEN v ELSE d[x]]

(***************************************************************************)
(* transform.py: graph_link_unitigs                                        *)
(***************************************************************************)
\* thresholds of metaphase.params for the clip evidence, scaled
max_hops == 2
min_reads_neighbour == 1
min_reads_cluster == 1

\* d[k] under try/except KeyError, for a table of lists
Lookup(d, k) == IF k \in DOMAIN d THEN d[k] ELSE <<>>

\* lines 443-450: gfa_to_nx, the undirected graph of the segment names
gfa_to_nx(g) ==
    [nodes |-> {n[1] : n \in DOMAIN g.segments},
     edges |-> {<<l.from[1], l.to[1]>> : l \in g.links}]

\* len(nx.shortest_path(G, a, b)) in the undirected G, 0 for NetworkXNoPath
RECURSIVE path_len(_, _, _, _)
path_len(G, frontier, b, k) ==
    IF b \in frontier THEN k
    ELSE With(<<frontier, frontier \cup
                   {m \in G.nodes : \E x \in frontier :
                       <<x, m>> \in G.edges \/ <<m, x>> \in G.edges}>>,
              LAMBDA a : IF a[2] = a[1] THEN 0 ELSE path_len(G, a[2], b, k + 1))
shortest_path_len(G, a, b) == path_len(G, {a}, b, 1)

\* lines 633-638 and 655-660: the orientation of the link for a right clip
\* and for a left clip
orient_Rclip(v) ==
    IF v[1] = "+" /\ v[2] = "+" THEN <<"+", "+">>
    ELSE IF v[1] = "-" /\ v[2] = "-" THEN <<"+", "+">>
    ELSE <<"+", "-">>
orient_Lclip(v) ==
    IF v[1] = "+" /\ v[2] = "+" THEN <<"-", "-">>
    ELSE IF v[1] = "-" /\ v[2] = "-" THEN <<"-", "-">>
    ELSE <<"-", "+">>

\* lines 628-660 on s = [neighbours, orient, raised] for the clips of one
\* read, given as a list of <<side, n, v>>; shortest_path raises
\* NodeNotFound, which is not caught, when n is no segment of the graph
RECURSIVE read_clips(_, _, _, _, _)
read_clips(s, G, edge, read, clips) ==
    IF clips = <<>> \/ s.raised THEN s
    ELSE With(<<s, Head(clips), shortest_path_len(G, Head(clips)[2], edge)>>, LAMBDA a :
            LET t == a[1]
                side == a[2][1]
                n == a[2][2]
                v == a[2][3]
                len == a[3]
                o == IF side = "Rclip" THEN orient_Rclip(v) ELSE orient_Lclip(v)
            IN  read_clips(
                    IF n \notin G.nodes THEN [t EXCEPT !.raised = TRUE]
                    ELSE IF len = 0 THEN [t EXCEPT !.orient = DictSet(@, n, o)]
                    ELSE IF len <= max_hops
                    THEN [t EXCEPT !.neighbours = DictSet(@, read, n),
                                   !.orient = DictSet(@, n, o)]
                    ELSE t,
                    G, edge, read, Tail(clips)))

\* the right clips of a read and then its left clips, as lines 629 and 647
\* take them
clips_of(d) ==
    [k \in 1..Len(d.Rclip) |-> <<"Rclip", d.Rclip[k][1], d.Rclip[k][2]>>]
        \o [k \in 1..Len(d.Lclip) |-> <<"Lclip", d.Lclip[k][1], d.Lclip[k][2]>>]

RECURSIVE collect_neighbours(_, _, _, _, _)
collect_neighbours(s, G, edge, data, reads) ==
    IF reads = <<>> \/ s.raised THEN s
    ELSE With(read_clips(s, G, edge, Head(reads), clips_of(data[Head(reads)])),
              LAMBDA t : collect_neighbours(t, G, edge, data, Tail(reads)))

\* the ReadName column of the rows of a cluster file whose Cluster is clN
reads_of(cl, clN) ==
    LET rows == SelectSeq(cl, LAMBDA row : row.Cluster = clN)
    IN  [k \in DOMAIN rows |-> rows[k].ReadName]

\* the child segments of n, out of the clusters in the list, that exist
existing_children(g, n, list) ==
    {SegName(n, i) : i \in {x \in Range(list) : SegName(n, x) \in DOMAIN g.segments}}

\* lines 675-744 for one neighbour n of the child segment edge_clN that has a
\* cluster file: the targets of the links that are added, and link_added
link_neighbour(g, t, edge, clN, n, neighbours, cl_n) ==
    LET reads == {k \in DOMAIN neighbours : neighbours[k] = n}
        count(x) == Cardinality({k \in DOMAIN cl_n :
                        cl_n[k].ReadName \in reads /\ cl_n[k].Cluster = x})
        n_cl_set == {x \in {cl_n[k].Cluster : k \in DOMAIN cl_n} :
                        count(x) > 0 /\ count(x) >= min_reads_cluster}
        first == existing_children(g, n, SortedSeq(n_cl_set))
        in_sink == InList(clN, Lookup(t.link_clusters_sink, edge))
        in_src == InList(clN, Lookup(t.link_clusters_src, edge))
        removed == InList(n, t.remove_clusters)
        link_full == first = {} /\ removed /\ in_sink /\ in_src
        direct == first = {} /\ ~removed
        n_cl_set2 == IF first # {} \/ ~removed \/ link_full THEN SortedSeq(n_cl_set)
                     ELSE IF in_sink THEN Lookup(t.link_clusters_src, n)
                     ELSE IF in_src THEN Lookup(t.link_clusters_sink, n)
                     ELSE SortedSeq(n_cl_set)
        second == existing_children(g, n, n_cl_set2)
        full(to_or) == IF ~link_full THEN {}
                       ELSE IF to_or = "+"
                       THEN existing_children(g, n, Lookup(t.link_clusters_src, n))
                       ELSE existing_children(g, n, Lookup(t.link_clusters_sink, n))
    IN  [targets |-> [to_or \in {"+", "-"} |->
                        first \cup (IF direct THEN {SegName(n, 0)} ELSE {})
                              \cup second \cup full(to_or)],
         link_added |-> [to_or \in {"+", "-"} |->
                        first # {} \/ direct \/ second # {} \/ full(to_or) # {}]]

\* lines 620-744 for the child segment edge_clN: the links that are added,
\* the values that link_added takes at the neighbours with a cluster file,
\* and whether an exception ended the call.  A neighbour without a cluster
\* file gets a link to the edge itself and leaves link_added as it is.
link_unitig(g, t, G, input, edge, clN) ==
    With(collect_neighbours([neighbours |-> <<>>, orient |-> <<>>, raised |-> FALSE],
                            G, edge, input[edge].data, reads_of(input[edge].cl, clN)),
         LAMBDA s :
           LET votes(n) == Cardinality({k \in DOMAIN s.neighbours : s.neighbours[k] = n})
               voted == {n \in Range(s.neighbours) : votes(n) > min_reads_neighbour}
               with_file == {n \in voted : input[n].has_csv}
               r(n) == link_neighbour(g, t, edge, clN, n, s.neighbours, input[n].cl)
               targets(n) == IF n \in with_file THEN r(n).targets[s.orient[n][2]]
                             ELSE {SegName(n, 0)}
           IN  [links |-> UNION {{Link(SegName(edge, clN), s.orient[n][1], x,
                                       s.orient[n][2]) : x \in targets(n)} : n \in voted},
                link_added |-> {r(n).link_added[s.orient[n][2]] : n \in with_file},
                raised |-> s.raised])

\* lines 620-744 on s = [links, link_added, raised], one child segment after
\* the other; link_added holds the values the variable may have, which is
\* the value at the neighbour that the set iteration of line 669 visits last
RECURSIVE link_unitigs(_, _, _, _, _, _, _)
link_unitigs(s, g, t, G, input, edge, todo) ==
    IF todo = <<>> \/ s.raised THEN s
    ELSE With(<<s, link_unitig(g, t, G, input, edge, Head(todo))>>, LAMBDA a :
            link_unitigs(IF a[2].raised THEN [a[1] EXCEPT !.raised = TRUE]
                         ELSE [links |-> a[1].links \cup a[2].links,
                               link_added |-> IF a[2].link_added = {}
                                              THEN a[1].link_added
                                              ELSE a[2].link_added,
                               raised |-> FALSE],
                         g, t, G, input, edge, Tail(todo)))

\* a table entry for a segment name; only the edges have entries
TableOf(d, name) == IF name[2] = 0 THEN Lookup(d, name[1]) ELSE <<>>

\* str(d).replace(name, name_i): every end of the link that has the name
ReplaceName(d, name, i) ==
    [d EXCEPT !.from = IF @ = name THEN SegName(name[1], i) ELSE @,
              !.to = IF @ = name THEN SegName(name[1], i) ELSE @]

\* lines 746-786 for one link d of the graph; repl is not emptied between
\* the two blocks
restored_from(d, t, edge) ==
    LET repl1 == IF d.from # SegName(edge, 0) THEN <<>>
                 ELSE IF d.to_or = "+" THEN TableOf(t.link_clusters_src, d.to)
                 ELSE TableOf(t.link_clusters_sink, d.to)
        repl2 == IF d.to # SegName(edge, 0) THEN <<>>
                 ELSE IF d.from_or = "+" THEN TableOf(t.link_clusters_sink, d.from)
                 ELSE TableOf(t.link_clusters_src, d.from)
    IN  {ReplaceName(d, d.to, i) : i \in Range(repl1)}
           \cup (IF d.to # SegName(edge, 0) THEN {}
                 ELSE {ReplaceName(d, d.from, i) : i \in Range(repl1 \o repl2)})

restore_links(links, t, edge) ==
    links \cup UNION {restored_from(d, t, edge) : d \in links}

\* graph_link_unitigs taking its clusters with link_clusters.pop(edge)
tables_after_link_pop(t, edge) ==
    [t EXCEPT !.link_clusters = [x \in DOMAIN @ \ {edge} |-> @[x]]]

\* lines 596-786: graph_link_unitigs assigns to none of the four tables
tables_after_link(t, edge) == t

(***************************************************************************)
(* flye_consensus.py: flye_consensus and its temporary files               *)
(***************************************************************************)
ConsEdges == {"edge_1", "edge_2"}
ConsClusters == {1, 2}
Keys == ConsEdges \X ConsClusters
NoKey == <<"", 0>>

\* the working files of one call; the BAM names hold the cluster only, the
\* FASTA and the polisher directory hold the edge too
ReadsBam(cluster) == <<"cluster_reads.bam", cluster>>
SortedBam(cluster) == <<"cluster_reads_sorted.bam", cluster>>
SortedBai(cluster) == <<"cluster_reads_sorted.bam.bai", cluster>>
CutFasta(edge, cluster) == <<"output/edge-cluster.fa", edge, cluster>>
PolishDir(edge, cluster) == <<"output/flye_consensus", edge, cluster>>

WorkingFiles(edge, cluster) ==
    {CutFasta(edge, cluster), ReadsBam(cluster), SortedBam(cluster),
     SortedBai(cluster), PolishDir(edge, cluster)}

\* how one call can go: samtools sort or index exits non-zero (check_output
\* raises, nothing catches it), the polisher exits non-zero with or without
\* having made its directory, the polished FASTA cannot be read, or all is well
Outcomes == {"sort_fails", "index_fails", "polish_fails", "polish_fails_dir",
             "read_fails", "ok"}

\* the files on disk when the call ends
FilesAfter(fs, edge, cluster, outcome) ==
    LET written == {ReadsBam(cluster), CutFasta(edge, cluster)}
        sorted == written \cup {SortedBam(cluster)}
        indexed == sorted \cup {SortedBai(cluster)}
    IN  CASE outcome = "sort_fails" -> fs \cup sorted
          [] outcome = "index_fails" -> fs \cup sorted
          [] outcome = "polish_fails" -> fs \cup indexed
          [] outcome = "polish_fails_dir" ->
                fs \cup indexed \cup {PolishDir(edge, cluster)}
          [] OTHER -> fs \ WorkingFiles(edge, cluster)

\* how the call ends: normally, by the early return of the except branch, or
\* by an exception
ExitOf(outcome) ==
    CASE outcome \in {"sort_fails", "index_fails"} -> "raised"
      [] outcome \in {"polish_fails", "polish_fails_dir"} -> "fallback"
      [] OTHER -> "returned"

\* whether the call reached the polisher command
PolisherRun(outcome) == outcome \notin {"sort_fails", "index_fails"}

\* one call flye_consensus(cluster, edge, ...)
flye_consensus(edge, cluster, outcome) ==
    /\ polish_calls[<<edge, cluster>>] < MaxCalls
    /\ files' = FilesAfter(files, edge, cluster, outcome)
    /\ polish_calls' =
          IF PolisherRun(outcome)
          THEN [polish_calls EXCEPT ![<<edge, cluster>>] = @ + 1]
          ELSE polish_calls
    /\ last_exit' = ExitOf(outcome)
    /\ last_key' = <<edge, cluster>>

(***************************************************************************)
(* The idle values a specification gives the variables it does not use     *)
(***************************************************************************)
\* the two orders in which the distance of a pair is asked
Orders == {"AB", "BA"}

IdleDist ==
    /\ first_cl_dict = [consensus |-> <<>>, start |-> -1, end |-> -1]
    /\ second_cl_dict = [consensus |-> <<>>, start |-> -1, end |-> -1]
    /\ dist = [o \in Orders |-> NoDistance]

IdleCons ==
    /\ files = {}
    /\ polish_calls = [k \in Keys |-> 0]
    /\ last_exit = "none"
    /\ last_key = NoKey
    /\ dist_pc = [at |-> "idle", edge |-> "", second |-> 0]

IdleNest ==
    /\ nest_G = EmptyGraph
    /\ nest_cons = <<>>
    /\ nest_runs = 0
    /\ nest_first = {}

\* the locals of graph_create_unitigs before the call has set any of them
EmptyFrame ==
    [cons |-> <<>>, full_clusters |-> <<>>, full_paths_roots |-> <<>>,
     full_paths_leafs |-> <<>>, G |-> EmptyGraph, cut_l |-> <<>>, cut_r |-> <<>>]

\* lines 33-41: the global tables as the module creates them
EmptyTables ==
    /\ full_cl = <<>>
    /\ full_paths = <<>>
    /\ link_clusters = <<>>
    /\ link_clusters_src = <<>>
    /\ link_clusters_sink = <<>>
    /\ remove_clusters = <<>>
    /\ remove_zeroes = <<>>

IdleTrans ==
    /\ edges = <<>>
    /\ inp = <<>>
    /\ graph = [segments |-> <<>>, links |-> {}]
    /\ topology = EmptyGraph
    /\ EmptyTables
    /\ frame = EmptyFrame
    /\ pc = [phase |-> "idle", i |-> 0, step |-> "idle"]
    /\ created = {}

(***************************************************************************)
(* SpecDist: two consensus results are drawn, and the distance is asked in *)
(* both orders.                                                            *)
(***************************************************************************)
InitDist ==
    /\ first_cl_dict \in ConsensusResults
    /\ second_cl_dict \in ConsensusResults
    /\ dist = [o \in Orders |-> NoDistance]
    /\ IdleCons
    /\ IdleNest
    /\ IdleTrans

DistanceAB ==
    /\ dist["AB"].kind = "none"
    /\ dist' = [dist EXCEPT !["AB"] =
                    cluster_distance_via_alignment(first_cl_dict, second_cl_dict)]
    /\ UNCHANGED <<first_cl_dict, second_cl_dict, consVars, nestVars, transVars>>

DistanceBA ==
    /\ dist["BA"].kind = "none"
    /\ dist' = [dist EXCEPT !["BA"] =
                    cluster_distance_via_alignment(second_cl_dict, first_cl_dict)]
    /\ UNCHANGED <<first_cl_dict, second_cl_dict, consVars, nestVars, transVars>>

NextDist == DistanceAB \/ DistanceBA

SpecDist == InitDist /\ [][NextDist]_vars

\* the exact fractions are equal
SameValue(x, y) == x.kind = y.kind /\ x.num * y.den = y.num * x.den

IntersectionLength == 
    intersection_end(first_cl_dict, second_cl_dict)
        - intersection_start(first_cl_dict, second_cl_dict)

\* C4: the distance of (A, B) is the distance of (B, A), sentinel included
C4_Symmetric ==
    (dist["AB"].kind # "none" /\ dist["BA"].kind # "none")
        => SameValue(dist["AB"], dist["BA"])

\* both orders were computed by the aligner on consensus results of
\* different intervals and different sequences
C4_Witness ==
    /\ dist["AB"].kind = "aligned" /\ dist["BA"].kind = "aligned"
    /\ first_cl_dict.start # second_cl_dict.start
    /\ first_cl_dict.consensus # second_cl_dict.consensus
    /\ dist["AB"].num > 0

\* C5: when the aligner ran, 0 <= best_score <= intersection length, so the
\* value 1 - best_score / length lies in [0, 1]
C5_InUnitInterval ==
    \A o \in Orders :
        dist[o].kind = "aligned" => (0 <= dist[o].num /\ dist[o].num <= dist[o].den)

\* the arguments of the call made in order o
FirstArg(o) == IF o = "AB" THEN first_cl_dict ELSE second_cl_dict
SecondArg(o) == IF o = "AB" THEN second_cl_dict ELSE first_cl_dict

\* C6: an intersection shorter than 1, or an empty clipped sequence, gives
\* the sentinel 1, with no exception and without running the aligner
C6_SentinelOnDegenerate ==
    \A o \in Orders :
        (/\ dist[o].kind # "none"
         /\ \/ IntersectionLength < 1
            \/ Len(first_consensus_clipped(FirstArg(o), SecondArg(o))) = 0
            \/ Len(second_consensus_clipped(FirstArg(o), SecondArg(o))) = 0)
            => dist[o] = Sentinel

\* the sentinel was returned for an intersection of length >= 1 because one
\* clipped sequence is empty while the other is not
C6_Witness ==
    /\ dist["AB"] = Sentinel
    /\ IntersectionLength >= 1
    /\ Len(first_consensus_clipped(first_cl_dict, second_cl_dict)) = 0
    /\ Len(second_consensus_clipped(first_cl_dict, second_cl_dict)) > 0
(***************************************************************************)
(* SpecCons: consensus and distance requests, each call of flye_consensus  *)
(* ending in one of its outcomes.                                          *)
(***************************************************************************)
\* a consensus request (as add_child_edge makes it)
ConsensusRequest ==
    /\ dist_pc.at = "idle"
    /\ \E e \in ConsEdges, c \in ConsClusters, o \in Outcomes :
          flye_consensus(e, c, o)
    /\ UNCHANGED <<dist_pc, distVars, nestVars, transVars>>

\* cluster_distance_via_alignment, line 128: the first cluster's consensus
\* (the request is followed only when the cap MaxCalls leaves room for both
\* of its calls); an exception of the first call leaves the function
DistanceFirst ==
    /\ dist_pc.at = "idle"
    /\ \E e \in ConsEdges, a \in ConsClusters, b \in ConsClusters, o \in Outcomes :
          /\ polish_calls[<<e, b>>] + (IF a = b THEN 1 ELSE 0) < MaxCalls
          /\ flye_consensus(e, a, o)
          /\ dist_pc' = IF ExitOf(o) = "raised" THEN dist_pc
                        ELSE [at |-> "second", edge |-> e, second |-> b]
    /\ UNCHANGED <<distVars, nestVars, transVars>>

\* line 129: the second cluster's consensus, then the distance is computed
DistanceSecond ==
    /\ dist_pc.at = "second"
    /\ \E o \in Outcomes : flye_consensus(dist_pc.edge, dist_pc.second, o)
    /\ dist_pc' = [at |-> "idle", edge |-> "", second |-> 0]
    /\ UNCHANGED <<distVars, nestVars, transVars>>

InitCons == IdleCons /\ IdleDist /\ IdleNest /\ IdleTrans

NextCons == ConsensusRequest \/ DistanceFirst \/ DistanceSecond

SpecCons == InitCons /\ [][NextCons]_vars

\* C7: the external computation runs at most once per (edge, cluster) key
C7_AtMostOncePerKey == \A k \in Keys : polish_calls[k] <= 1

\* C8: when a call has returned (normally or with the empty-sequence
\* fallback), none of its working files is left
C8_NoFileLeftOnReturn ==
    last_exit \in {"returned", "fallback"}
        => files \cap WorkingFiles(last_key[1], last_key[2]) = {}

(***************************************************************************)
(* SpecNested: remove_nested applied NestRuns times to a drawn graph and   *)
(* interval table.                                                         *)
(***************************************************************************)
NestNodeSet == 1..NestNodes
NestIntervals ==
    {[Start |-> a, Stop |-> b] : a \in 0..NestMaxPos, b \in 0..NestMaxPos}
NestPairs == {e \in NestNodeSet \X NestNodeSet : e[1] # e[2]}

InitNested ==
    /\ nest_G \in {[nodes |-> NestNodeSet, edges |-> E] : E \in SUBSET NestPairs}
    /\ nest_cons \in [NestNodeSet -> {iv \in NestIntervals : iv.Start <= iv.Stop}]
    /\ nest_runs = 0
    /\ nest_first = {}
    /\ IdleDist
    /\ IdleCons
    /\ IdleTrans

RemoveNestedRun ==
    /\ nest_runs < NestRuns
    /\ nest_G' = remove_nested(nest_G, nest_cons)
    /\ nest_runs' = nest_runs + 1
    /\ nest_first' = IF nest_runs = 0 THEN nest_G'.nodes ELSE nest_first
    /\ UNCHANGED <<nest_cons, distVars, consVars, transVars>>

NextNested == RemoveNestedRun

SpecNested == InitNested /\ [][NextNested]_vars

\* C3: a second application of remove_nested removes no further node
C3_Idempotent == nest_runs >= 1 => nest_G.nodes = nest_first

\* two applications were made and the first one removed a node
C3_Witness ==
    /\ nest_runs = 2
    /\ nest_first # NestNodeSet
    /\ nest_first # {}

(***************************************************************************)
(* transform_main, Phase 1: graph_create_unitigs for one edge after the    *)
(* other (lines 839-841).  The call for an edge with several clusters is   *)
(* taken in the steps in which it calls its helpers.                       *)
(***************************************************************************)
CurEdge == edges[pc.i]
In == inp[CurEdge]
World == [graph |-> graph, remove_zeroes |-> remove_zeroes, raised |-> FALSE]
At(phase, step) == pc.phase = phase /\ pc.step = step

\* one loop over the edges that calls graph_link_unitigs(i) right after
\* graph_create_unitigs(i)
after_create_one_loop(i, n) == [phase |-> "link", i |-> i, step |-> "start"]

\* lines 839-844: where the run stands once graph_create_unitigs(i) has
\* returned, n being the number of edges
after_create(i, n) ==
    IF i < n THEN [phase |-> "create", i |-> i + 1, step |-> "start"]
    ELSE [phase |-> "link", i |-> 1, step |-> "start"]

\* an exception that no handler catches ends the run
Raise == pc' = [pc EXCEPT !.phase = "raised"]

\* lines 460-481 and 565-572: no cluster file for the edge, or no cluster in
\* it (clusters[0] raises IndexError); the edge keeps its sequence and gets
\* the depth that samtools reports
NoClusters ==
    /\ At("create", "start")
    /\ ~In.has_csv \/ In.clusters = {}
    /\ graph' = [graph EXCEPT !.segments[SegName(CurEdge, 0)].dp = In.coverage]
    /\ frame' = EmptyFrame
    /\ pc' = after_create(pc.i, Len(edges))
    /\ created' = created \cup {pc.i}
    /\ UNCHANGED <<edges, inp, topology, full_cl, full_paths, tableVars, remove_zeroes>>
    /\ UNCHANGED <<distVars, consVars, nestVars>>

\* lines 483-495: the edge has one cluster
SingleCluster ==
    /\ At("create", "start")
    /\ In.has_csv /\ Cardinality(In.clusters) = 1
    /\ \E cluster \in In.clusters :
        \E w \in {add_child_edge(World, CurEdge, cluster,
                                 Some(In.consensus[cluster].start),
                                 Some(In.consensus[cluster].end),
                                 In.cons[cluster].Cov, In.consensus[cluster])} :
           /\ graph' = IF w.raised THEN w.graph
                       ELSE change_sec(w.graph, CurEdge, In.other_consensus)
           /\ remove_zeroes' = w.remove_zeroes
           /\ IF w.raised
              THEN /\ Raise
                   /\ UNCHANGED <<tableVars, created>>
              ELSE /\ link_clusters' = DictSet(link_clusters, CurEdge, <<cluster>>)
                   /\ link_clusters_sink' = DictSet(link_clusters_sink, CurEdge, <<cluster>>)
                   /\ link_clusters_src' = DictSet(link_clusters_src, CurEdge, <<cluster>>)
                   /\ remove_clusters' = Append(remove_clusters, CurEdge)
                   /\ pc' = after_create(pc.i, Len(edges))
                   /\ created' = created \cup {pc.i}
    /\ frame' = EmptyFrame
    /\ UNCHANGED <<edges, inp, topology, full_cl, full_paths>>
    /\ UNCHANGED <<distVars, consVars, nestVars>>

\* lines 497-515: the loop that trims, and sorts the clusters into full
\* clusters, roots and leafs
Classify ==
    /\ At("create", "start")
    /\ In.has_csv /\ Cardinality(In.clusters) > 1
    /\ \E s \in {classify([w |-> World, cons |-> In.cons, full_clusters |-> <<>>,
                            roots |-> <<>>, leafs |-> <<>>],
                           SortedSeq(In.clusters), CurEdge, In.ln, In.tails,
                           In.consensus)} :
           /\ graph' = s.w.graph
           /\ remove_zeroes' = s.w.remove_zeroes
           /\ frame' = [EmptyFrame EXCEPT !.cons = s.cons,
                                          !.full_clusters = s.full_clusters,
                                          !.full_paths_roots = s.roots,
                                          !.full_paths_leafs = s.leafs]
           /\ IF s.w.raised THEN Raise
              ELSE pc' = [pc EXCEPT !.step = "build_paths_graph"]
    /\ UNCHANGED <<edges, inp, topology, full_cl, full_paths, tableVars, created>>
    /\ UNCHANGED <<distVars, consVars, nestVars>>

\* lines 517-520: build_paths_graph, and the full clusters are published
\* (paths_graph_add_vis only draws, and removes nothing)
BuildPathsGraph ==
    /\ At("create", "build_paths_graph")
    /\ \E s \in {build_paths_graph(In.M, In.clusters, frame.cons,
                                    frame.full_paths_roots, frame.full_paths_leafs)} :
           frame' = [frame EXCEPT !.G = s.G, !.full_paths_roots = s.roots,
                                  !.full_paths_leafs = s.leafs]
    /\ full_cl' = DictSet(full_cl, CurEdge, frame.full_clusters)
    /\ pc' = [pc EXCEPT !.step = "find_full_paths"]
    /\ UNCHANGED <<edges, inp, graph, topology, full_paths, tableVars,
                   remove_zeroes, created>>
    /\ UNCHANGED <<distVars, consVars, nestVars>>

\* lines 522-525
FindFullPaths ==
    /\ At("create", "find_full_paths")
    /\ \E r \in {find_full_paths(frame.G, frame.full_paths_roots,
                                  frame.full_paths_leafs)} :
           IF r.raised
           THEN Raise /\ UNCHANGED full_paths
           ELSE /\ full_paths' = DictSet(full_paths, CurEdge, r.paths)
                /\ pc' = [pc EXCEPT !.step = "add_path_edges"]
    /\ UNCHANGED <<edges, inp, graph, topology, full_cl, tableVars, remove_zeroes,
                   frame, created>>
    /\ UNCHANGED <<distVars, consVars, nestVars>>

\* lines 527-528
AddPathEdges ==
    /\ At("create", "add_path_edges")
    /\ \E r \in {add_path_edges(World, CurEdge, In.ln, full_paths[CurEdge], frame.G,
                                 frame.full_paths_roots, frame.full_paths_leafs,
                                 frame.full_clusters, frame.cons, In.consensus)} :
           /\ graph' = r.w.graph
           /\ remove_zeroes' = r.w.remove_zeroes
           /\ full_paths' = [full_paths EXCEPT ![CurEdge] = r.paths]
           /\ frame' = [frame EXCEPT !.G = r.G, !.full_paths_roots = r.roots,
                                     !.full_paths_leafs = r.leafs,
                                     !.cut_l = r.cut_l, !.cut_r = r.cut_r]
           /\ IF r.w.raised THEN Raise
              ELSE pc' = [pc EXCEPT !.step = "add_path_links"]
    /\ UNCHANGED <<edges, inp, topology, full_cl, tableVars, created>>
    /\ UNCHANGED <<distVars, consVars, nestVars>>

\* line 529
AddPathLinks ==
    /\ At("create", "add_path_links")
    /\ graph' = [graph EXCEPT !.links = add_path_links(@, CurEdge, full_paths[CurEdge])]
    /\ pc' = [pc EXCEPT !.step = "parental"]
    /\ UNCHANGED <<edges, inp, topology, full_cl, full_paths, tableVars,
                   remove_zeroes, frame, created>>
    /\ UNCHANGED <<distVars, consVars, nestVars>>

\* lines 531-562: what stays with the parental edge, its coverage, whether
\* it is to be removed, and the link tables of the edge
Parental ==
    /\ At("create", "parental")
    /\ \E othercl \in {other_clusters(In.clusters, In.M, frame.full_clusters,
                                        full_paths[CurEdge])} :
        \E cc \in {change_cov(frame.cons, In.ln, In.clusters, othercl)} :
        \E second \in {/\ parental_min_coverage < 6
                       /\ Cardinality(In.clusters) - Cardinality(othercl) # 0} :
           /\ graph' = With([graph EXCEPT
                               !.segments[SegName(CurEdge, 0)].dp = Round(cc.cov, In.ln)],
                            LAMBDA g : IF second THEN g
                                       ELSE change_sec(g, CurEdge, In.other_consensus))
           /\ remove_clusters' = remove_clusters
                                    \o (IF cc.remove THEN <<CurEdge>> ELSE <<>>)
                                    \o (IF second THEN <<CurEdge>> ELSE <<>>)
    /\ link_clusters' = DictSet(link_clusters, CurEdge,
            link_table(frame.full_clusters, frame.full_paths_roots, full_paths[CurEdge])
               \o link_table(<<>>, frame.full_paths_leafs, full_paths[CurEdge]))
    /\ link_clusters_src' = DictSet(link_clusters_src, CurEdge,
            link_table(frame.full_clusters, frame.full_paths_roots, full_paths[CurEdge]))
    /\ link_clusters_sink' = DictSet(link_clusters_sink, CurEdge,
            link_table(frame.full_clusters, frame.full_paths_leafs, full_paths[CurEdge]))
    /\ pc' = after_create(pc.i, Len(edges))
    /\ created' = created \cup {pc.i}
    /\ UNCHANGED <<edges, inp, topology, full_cl, full_paths, remove_zeroes, frame>>
    /\ UNCHANGED <<distVars, consVars, nestVars>>

(***************************************************************************)
(* transform_main, Phase 2 and the end of the run (lines 843-854)          *)
(***************************************************************************)
Tables ==
    [link_clusters |-> link_clusters, link_clusters_src |-> link_clusters_src,
     link_clusters_sink |-> link_clusters_sink, remove_clusters |-> remove_clusters]

\* lines 843-846: where the run stands once graph_link_unitigs(i) has returned
after_link(i, n) ==
    IF i < n THEN [phase |-> "link", i |-> i + 1, step |-> "start"]
    ELSE [phase |-> "finish", i |-> n, step |-> "start"]

\* lines 596-786 for the edge at pc.i
GraphLinkUnitigs ==
    /\ At("link", "start")
    /\ \E r \in {link_unitigs([links |-> graph.links, link_added |-> {FALSE},
                                raised |-> FALSE],
                               graph, Tables, topology, inp, CurEdge,
                               SortedSeq({clN \in Range(Lookup(link_clusters, CurEdge)) :
                                   SegName(CurEdge, clN) \in DOMAIN graph.segments}))},
          t \in {tables_after_link(Tables, CurEdge)} :
           /\ link_clusters' = t.link_clusters
           /\ link_clusters_src' = t.link_clusters_src
           /\ link_clusters_sink' = t.link_clusters_sink
           /\ remove_clusters' = t.remove_clusters
           /\ IF r.raised
              THEN Raise /\ UNCHANGED graph
              ELSE /\ \E link_added \in r.link_added :
                        graph' = [graph EXCEPT !.links =
                            IF link_added = FALSE \/ ~InList(CurEdge, remove_clusters)
                            THEN restore_links(r.links, Tables, CurEdge)
                            ELSE r.links]
                   /\ pc' = after_link(pc.i, Len(edges))
    /\ UNCHANGED <<edges, inp, topology, full_cl, full_paths, remove_zeroes, frame, created>>
    /\ UNCHANGED <<distVars, consVars, nestVars>>

\* lines 848-854: the segments on remove_clusters leave the graph, and the
\* links at them
RemoveParental ==
    /\ At("finish", "start")
    /\ graph' = [segments |-> [n \in {m \in DOMAIN graph.segments :
                                        ~(m[2] = 0 /\ InList(m[1], remove_clusters))}
                                |-> graph.segments[n]],
                 links |-> {l \in graph.links :
                              /\ ~(l.from[2] = 0 /\ InList(l.from[1], remove_clusters))
                              /\ ~(l.to[2] = 0 /\ InList(l.to[1], remove_clusters))}]
    /\ pc' = [pc EXCEPT !.phase = "done"]
    /\ UNCHANGED <<edges, inp, topology, full_cl, full_paths, tableVars,
                   remove_zeroes, frame, created>>
    /\ UNCHANGED <<distVars, consVars, nestVars>>

(***************************************************************************)
(* SpecCut: graph_create_unitigs on one edge with several clusters.  The   *)
(* edge is short, or it is the edge of length 100 with the chain 1->2->3.  *)
(***************************************************************************)
\* what the input files say about one cluster: its interval from
\* build_data_cons and the tail counts of strong_tail.  A cluster has reads
\* that start before start_end_gap only if its interval starts there, and
\* likewise at the right end.
ClusterInputs(ln) ==
    {r \in [Start : 0..(ln - 1), Stop : 1..ln,
            start : {strong_cluster_min_reads, strong_cluster_min_reads + 1},
            stop : {strong_cluster_min_reads, strong_cluster_min_reads + 1}] :
        /\ r.Start < r.Stop
        /\ r.start > strong_cluster_min_reads => r.Start < start_end_gap
        /\ r.stop > strong_cluster_min_reads => r.Stop > ln - start_end_gap}

\* the input of an edge of length ln whose clusters are described by d and
\* whose adjacency is M; the consensus of a cluster spans its interval
EdgeInput(ln, d, M) ==
    [has_csv |-> TRUE,
     ln |-> ln,
     clusters |-> DOMAIN d,
     cons |-> [c \in DOMAIN d |-> [Start |-> d[c].Start, Stop |-> d[c].Stop, Cov |-> 5]],
     tails |-> [c \in DOMAIN d |-> [start |-> d[c].start, stop |-> d[c].stop]],
     M |-> M,
     consensus |-> [c \in DOMAIN d |->
                      [consensus |-> Positions(d[c].Start, d[c].Stop),
                       start |-> d[c].Start, end |-> d[c].Stop]],
     coverage |-> 5,
     cl |-> <<>>,
     data |-> <<>>,
     other_consensus |-> <<>>]

\* the edge of length 100 with clusters 1 = [0,40), 2 = [35,70), 3 = [65,100)
\* and the chain 1 -> 2 -> 3; 1 has a strong left tail, 3 a strong right one
ChainInput ==
    EdgeInput(100,
              <<[Start |-> 0, Stop |-> 40, start |-> strong_cluster_min_reads + 1,
                 stop |-> 0],
                [Start |-> 35, Stop |-> 70, start |-> 0, stop |-> 0],
                [Start |-> 65, Stop |-> 100, start |-> 0,
                 stop |-> strong_cluster_min_reads + 1]>>,
              {<<1, 2>>, <<2, 3>>})

CutPairs == {e \in (1..CutClusters) \X (1..CutClusters) : e[1] # e[2]}

CutInputs(ln) ==
    {EdgeInput(ln, d, M) :
        d \in {f \in [1..CutClusters -> ClusterInputs(ln)] :
                  \A c \in 1..(CutClusters - 1) : f[c].Start <= f[c + 1].Start},
        M \in {A \in SUBSET CutPairs : Cardinality(A) <= CutMaxAdj}}
    \cup {ChainInput}

\* lines 813-838: the graph as read, with the edge as its only segment
OneEdgeGraph(edge, ln) ==
    [segments |-> (SegName(edge, 0) :> [sequence |-> Positions(0, ln), dp |-> 0]),
     links |-> {}]

InitCut ==
    /\ edges = <<"edge_1">>
    /\ \E x \in CutInputs(CutLen) :
         /\ inp = ("edge_1" :> x)
         /\ graph = OneEdgeGraph("edge_1", x.ln)
    /\ topology = [nodes |-> {"edge_1"}, edges |-> {}]
    /\ EmptyTables
    /\ frame = EmptyFrame
    /\ pc = [phase |-> "create", i |-> 1, step |-> "start"]
    /\ created = {}
    /\ IdleDist
    /\ IdleCons
    /\ IdleNest

NextCut ==
    \/ Classify
    \/ BuildPathsGraph
    \/ FindFullPaths
    \/ AddPathEdges
    \/ AddPathLinks
    \/ Parental

SpecCut == InitCut /\ [][NextCut]_vars

\* add_path_edges has returned for the edge
CutsResolved == pc.step \in {"add_path_links", "parental"} /\ pc.phase = "create"

\* the clusters that are on a path of the edge when add_path_edges returns
OnPath == Range(Flatten(full_paths["edge_1"]))

\* C1: once add_path_edges has resolved the cuts of an edge, every path
\* cluster has cut_l <= cut_r, and on every path the right cut of a cluster
\* is the left cut of the cluster that follows it
C1_CutsOrderedAndShared ==
    CutsResolved =>
        /\ \A c \in OnPath :
              /\ frame.cut_l[c] # None
              /\ frame.cut_r[c] # None
              /\ Val(frame.cut_l[c]) <= Val(frame.cut_r[c])
        /\ \A j \in DOMAIN full_paths["edge_1"] :
              \A k \in 1..(Len(full_paths["edge_1"][j]) - 1) :
                 frame.cut_r[full_paths["edge_1"][j][k]]
                    = frame.cut_l[full_paths["edge_1"][j][k + 1]]

\* how often the edge position p occurs in the child segments of the edge
Count(seq, p) == Cardinality({k \in DOMAIN seq : seq[k] = p})

ChildSegments == {n \in DOMAIN graph.segments : n[1] = "edge_1" /\ n[2] # 0}

Occurrences(p) ==
    SumOver(ChildSegments, [n \in ChildSegments |-> Count(graph.segments[n].sequence, p)])

\* C2: on the edge of length 100 with the chain 1 -> 2 -> 3 the one path
\* [1,2,3] is found, the cut between 1 and 2 lies in 37..38, the cut between
\* 2 and 3 lies in 67..68, and the three child segments hold every position
\* of [0,100) exactly once
C2_ChainTiledOnce ==
    (inp["edge_1"] = ChainInput /\ CutsResolved) =>
        /\ full_paths["edge_1"] = <<<<1, 2, 3>>>>
        /\ frame.cut_r[1] = frame.cut_l[2]
        /\ frame.cut_r[1] \in {Some(37), Some(38)}
        /\ frame.cut_r[2] = frame.cut_l[3]
        /\ frame.cut_r[2] \in {Some(67), Some(68)}
        /\ Cardinality(ChildSegments) = 3
        /\ \A p \in 0..99 : Occurrences(p) = 1

(***************************************************************************)
(* SpecMain: transform_main on a graph of three segments in a row, the     *)
(* first two of which are in the edge list.  Two reads carry the clip      *)
(* evidence.                                                               *)
(***************************************************************************)
MainEdges == <<"edge_1", "edge_2">>
MainSegments == {"edge_1", "edge_2", "edge_3"}
MainReads == <<"read_1", "read_2">>

\* an edge for which no cluster file exists
NoCsvInput(ln) ==
    [EdgeInput(ln, <<>>, {}) EXCEPT !.has_csv = FALSE]

\* clusters by where they lie on an edge of length ln and which tails are strong
FullCluster(ln) ==
    [Start |-> 0, Stop |-> ln, start |-> strong_cluster_min_reads + 1,
     stop |-> strong_cluster_min_reads + 1]
LeftCluster(ln) ==
    [Start |-> 0, Stop |-> ln - 1, start |-> strong_cluster_min_reads + 1,
     stop |-> strong_cluster_min_reads]
RightCluster(ln) ==
    [Start |-> 1, Stop |-> ln, start |-> strong_cluster_min_reads,
     stop |-> strong_cluster_min_reads + 1]
InnerCluster(ln) ==
    [Start |-> 1, Stop |-> ln - 1, start |-> strong_cluster_min_reads,
     stop |-> strong_cluster_min_reads]

\* what the cluster file, the alignments and the adjacency of an edge may be
ClusterLayouts(ln) ==
    {NoCsvInput(ln),
     EdgeInput(ln, <<>>, {}),
     EdgeInput(ln, <<FullCluster(ln)>>, {}),
     EdgeInput(ln, <<FullCluster(ln), FullCluster(ln)>>, {}),
     EdgeInput(ln, <<LeftCluster(ln), RightCluster(ln)>>, {<<1, 2>>}),
     EdgeInput(ln, <<LeftCluster(ln), RightCluster(ln)>>, {}),
     EdgeInput(ln, <<FullCluster(ln), InnerCluster(ln)>>, {<<1, 2>>}),
     EdgeInput(ln, <<FullCluster(ln), InnerCluster(ln)>>, {})}

\* the clips that a read aligned to an edge may have: none, a right clip or
\* a left clip into the other edge of the list, a right clip into edge_3
Clips(other) ==
    {[Rclip |-> <<>>, Lclip |-> <<>>],
     [Rclip |-> <<<<other, <<"+", "+">>>>>>, Lclip |-> <<>>],
     [Rclip |-> <<>>, Lclip |-> <<<<other, <<"+", "-">>>>>>],
     [Rclip |-> <<<<"edge_3", <<"+", "+">>>>>>, Lclip |-> <<>>]}

\* the clusters of the two reads: both in the first cluster, or one in the
\* first and one in the last
ReadClusters(x) ==
    IF x.clusters = {} THEN {<<>>}
    ELSE {<<SetMin(x.clusters), SetMin(x.clusters)>>,
          <<SetMin(x.clusters), SetMax(x.clusters)>>}

ReadClips(x, other) ==
    IF x.clusters = {} THEN {<<>>} ELSE Clips(other) \X Clips(other)

\* the input of an edge with the rows of its cluster file and the clips of
\* read_bam
WithReads(x, rc, d) ==
    [x EXCEPT !.cl = [k \in DOMAIN rc |-> [ReadName |-> MainReads[k], Cluster |-> rc[k]]],
              !.data = [k \in {MainReads[j] : j \in DOMAIN d} |->
                           d[CHOOSE j \in DOMAIN d : MainReads[j] = k]]]

EdgeFiles(other) ==
    UNION {{WithReads(x, rc, d) : rc \in ReadClusters(x), d \in ReadClips(x, other)} :
              x \in ClusterLayouts(MainLen)}

\* lines 813-838: the graph as read from the gfa file
InitMain ==
    /\ edges = MainEdges
    /\ \E x1 \in EdgeFiles("edge_2"), x2 \in EdgeFiles("edge_1") :
         inp = [e \in MainSegments |->
                   IF e = "edge_1" THEN x1
                   ELSE IF e = "edge_2" THEN x2
                   ELSE NoCsvInput(MainLen)]
    /\ graph = [segments |-> [n \in {SegName(e, 0) : e \in MainSegments} |->
                                 [sequence |-> Positions(0, MainLen), dp |-> 0]],
                links |-> {Link(SegName("edge_1", 0), "+", SegName("edge_2", 0), "+"),
                           Link(SegName("edge_2", 0), "+", SegName("edge_3", 0), "+")}]
    /\ topology = gfa_to_nx(graph)
    /\ EmptyTables
    /\ frame = EmptyFrame
    /\ pc = [phase |-> "create", i |-> 1, step |-> "start"]
    /\ created = {}
    /\ IdleDist
    /\ IdleCons
    /\ IdleNest

NextMain ==
    \/ NoClusters
    \/ SingleCluster
    \/ Classify
    \/ BuildPathsGraph
    \/ FindFullPaths
    \/ AddPathEdges
    \/ AddPathLinks
    \/ Parental
    \/ GraphLinkUnitigs
    \/ RemoveParental

SpecMain == InitMain /\ [][NextMain]_vars

\* C9: no graph_link_unitigs call begins before graph_create_unitigs has
\* returned for every edge of the edge list
C9_LinkAfterAllCreated ==
    pc.phase = "link" => created = 1..Len(edges)

\* graph_link_unitigs has run for the first edge and is about to run for
\* the second, every graph_create_unitigs call having returned
C9_Witness ==
    pc.phase = "link" /\ pc.i = 2 /\ created = 1..2

\* C10: a step of Phase 2 leaves link_clusters, link_clusters_src,
\* link_clusters_sink and remove_clusters as they are
C10_TablesReadOnly ==
    [][pc.phase = "link" => UNCHANGED tableVars]_vars

\* Phase 2 has run for an edge whose clusters are in the tables, and it has
\* linked a child segment of the edge to a segment of another edge
C10_Witness ==
    /\ pc.phase \in {"link", "finish"}
    /\ pc.i = 2
    /\ Lookup(link_clusters, "edge_1") # <<>>
    /\ \E l \in graph.links : l.from[1] = "edge_1" /\ l.from[2] # 0 /\ l.to[1] # "edge_1"

(***************************************************************************)
(* SpecEdge: graph_create_unitigs on one edge of any length up to EdgeLen, *)
(* with up to EdgeClusters clusters, any adjacency between them, and for   *)
(* every cluster either a polished consensus or the empty one.             *)
(***************************************************************************)
\* flye_consensus.py, lines 84-101: the consensus of the clusters in F is
\* the empty sequence (the polisher failed, or its output could not be
\* read); start and end are those of the cluster's reads all the same
WithEmptyConsensus(x, F) ==
    [x EXCEPT !.consensus = [c \in DOMAIN @ |->
                                IF c \in F THEN [@[c] EXCEPT !.consensus = <<>>]
                                ELSE @[c]]]

EdgePairs(n) == {e \in (1..n) \X (1..n) : e[1] # e[2]}

\* lines 813-838 and 460-482: the graph with the edge as its only segment,
\* and what graph_create_unitigs reads for the edge
InitEdge ==
    /\ edges = <<"edge_1">>
    /\ \E ln \in 1..EdgeLen, n \in 0..EdgeClusters :
        \E d \in [1..n -> ClusterInputs(ln)], M \in SUBSET EdgePairs(n),
           F \in SUBSET (1..n), has_csv \in BOOLEAN :
         /\ has_csv \/ (n = 0 /\ ln = EdgeLen)
         /\ inp = ("edge_1" :> [WithEmptyConsensus(EdgeInput(ln, d, M), F)
                                   EXCEPT !.has_csv = has_csv])
         /\ graph = OneEdgeGraph("edge_1", ln)
    /\ topology = [nodes |-> {"edge_1"}, edges |-> {}]
    /\ EmptyTables
    /\ frame = EmptyFrame
    /\ pc = [phase |-> "create", i |-> 1, step |-> "start"]
    /\ created = {}
    /\ IdleDist
    /\ IdleCons
    /\ IdleNest

NextEdge ==
    \/ NoClusters
    \/ SingleCluster
    \/ Classify
    \/ BuildPathsGraph
    \/ FindFullPaths
    \/ AddPathEdges
    \/ AddPathLinks
    \/ Parental

SpecEdge == InitEdge /\ [][NextEdge]_vars

\* graph_create_unitigs has returned for the edge
EdgeCreated == created = {1}

\* the cluster table of the edge holds one cluster, which spans the edge
OneSpanningCluster ==
    /\ inp["edge_1"].has_csv
    /\ Cardinality(inp["edge_1"].clusters) = 1
    /\ \A c \in inp["edge_1"].clusters :
          /\ inp["edge_1"].consensus[c].start = 0
          /\ inp["edge_1"].consensus[c].end = inp["edge_1"].ln

\* C11: for an edge with one cluster, which spans the edge, one child
\* segment edge_cluster is created, its sequence is as long as the cluster's
\* interval (end - start), and the edge is on remove_clusters
C11_OneSpanningChild ==
    (EdgeCreated /\ OneSpanningCluster) =>
        \A c \in inp["edge_1"].clusters :
            /\ ChildSegments = {SegName("edge_1", c)}
            /\ Len(graph.segments[SegName("edge_1", c)].sequence)
                  = inp["edge_1"].consensus[c].end - inp["edge_1"].consensus[c].start
            /\ InList("edge_1", remove_clusters)

\* the edge has two clusters, each of which touches both ends of the edge
\* and has strong tails at both ends
TwoFullClusters ==
    /\ inp["edge_1"].has_csv
    /\ inp["edge_1"].clusters = {1, 2}
    /\ \A c \in {1, 2} :
          /\ inp["edge_1"].cons[c].Start < start_end_gap
          /\ inp["edge_1"].cons[c].Stop > inp["edge_1"].ln - start_end_gap
          /\ strong_tail(inp["edge_1"].tails, c) = <<TRUE, TRUE>>

\* the links of the graph between two child segments of the edge
InnerLinks ==
    {l \in graph.links : /\ l.from[1] = "edge_1" /\ l.from[2] # 0
                         /\ l.to[1] = "edge_1" /\ l.to[2] # 0}

\* C12: for an edge with two clusters that both touch both ends with strong
\* tails, whatever their adjacency, both are full clusters, neither is on a
\* path, the two child segments are created without an exception, and no
\* link joins the two child segments
C12_TwoFullClusters ==
    (TwoFullClusters /\ pc.phase \in {"link", "raised"}) =>
        /\ pc.phase = "link"
        /\ Range(Lookup(full_cl, "edge_1")) = {1, 2}
        /\ OnPath = {}
        /\ ChildSegments = {SegName("edge_1", 1), SegName("edge_1", 2)}
        /\ InnerLinks = {}

\* graph_create_unitigs has returned from the branch of lines 497-562, in
\* which change_cov is called
ParentalDone ==
    /\ pc.phase = "link"
    /\ inp["edge_1"].has_csv
    /\ Cardinality(inp["edge_1"].clusters) > 1

\* the 'other' clusters of the edge as change_cov got them, and the edge
\* positions that their intervals cover
OtherClusters ==
    other_clusters(inp["edge_1"].clusters, inp["edge_1"].M, frame.full_clusters,
                   full_paths["edge_1"])

OtherCover == UNION {frame.cons[i].Start..(frame.cons[i].Stop - 1) : i \in OtherClusters}

CoversTooLittle ==
    Cardinality(OtherCover) * parental_min_len_den
        < parental_min_len_num * inp["edge_1"].ln

\* C13: an edge whose 'other' clusters cover less than parental_min_len of
\* its length is on remove_clusters, also when every cluster of the edge is
\* an 'other' cluster
C13_ShortCoverRemoved ==
    (ParentalDone /\ CoversTooLittle) => InList("edge_1", remove_clusters)

\* the reads of cluster 1 of edge_1 that have a clip into edge_2 and are in
\* cluster c of edge_2
PointsTo(read, n) ==
    \/ \E k \in DOMAIN inp["edge_1"].data[read].Rclip :
          inp["edge_1"].data[read].Rclip[k][1] = n
    \/ \E k \in DOMAIN inp["edge_1"].data[read].Lclip :
          inp["edge_1"].data[read].Lclip[k][1] = n

ConnectingReads(c) ==
    {read \in Range(reads_of(inp["edge_1"].cl, 1)) :
        /\ PointsTo(read, "edge_2")
        /\ read \in Range(reads_of(inp["edge_2"].cl, c))}

\* edge_1 and edge_2 have two child segments each, and Phase 2 has run for
\* edge_1 and for no other edge
TwoByTwoLinked ==
    /\ pc.phase = "link" /\ pc.i = 2
    /\ \A e \in {"edge_1", "edge_2"} :
          {n \in DOMAIN graph.segments : n[1] = e /\ n[2] # 0}
             = {SegName(e, 1), SegName(e, 2)}

LinkedTo(c) ==
    \E l \in graph.links : l.from = SegName("edge_1", 1) /\ l.to = SegName("edge_2", c)

\* C14: with at least the minimum number of reads (also exactly that many)
\* connecting cluster 1 of edge_1 to cluster 1 of edge_2 and no read
\* connecting it to cluster 2 of edge_2, Phase 2 for edge_1 links edge_1_1
\* to edge_2_1 and not to edge_2_2
C14_LinkOnMinimumVotes ==
    (/\ TwoByTwoLinked
     /\ Cardinality(ConnectingReads(1)) >= min_reads_neighbour
     /\ Cardinality(ConnectingReads(1)) >= min_reads_cluster
     /\ ConnectingReads(2) = {})
        => (LinkedTo(1) /\ ~LinkedTo(2))

\* the clusters for which add_child_edge ran in the step: each such call
\* that returns adds either a segment or an entry of remove_zeroes
Materialized ==
    {c \in 1..CutClusters :
        \/ SegName("edge_1", c) \in DOMAIN graph'.segments \ DOMAIN graph.segments
        \/ Cardinality({k \in DOMAIN remove_zeroes' : remove_zeroes'[k] = SegName("edge_1", c)})
              > Cardinality({k \in DOMAIN remove_zeroes : remove_zeroes[k] = SegName("edge_1", c)})}

\* C15: add_path_edges calls add_child_edge for no path cluster whose cut_l
\* equals its cut_r, and when it returns such a cluster is on no path of the
\* edge and is no node of the adjacency graph
C15_EqualCutsDropped ==
    [][(pc.phase = "create" /\ pc.step = "add_path_edges") =>
          \A c \in DOMAIN frame'.cut_l :
              frame'.cut_l[c] = frame'.cut_r[c] =>
                  /\ c \notin Materialized
                  /\ pc'.step = "add_path_links" =>
                        /\ c \notin Range(Flatten(full_paths'["edge_1"]))
                        /\ c \notin frame'.G.nodes]_vars

\* add_path_edges has returned and a cluster whose two cuts were resolved to
\* the same position was on a path before the call
C15_Witness ==
    /\ CutsResolved
    /\ \E c \in DOMAIN frame.cut_l :
          /\ frame.cut_l[c] # None
          /\ frame.cut_l[c] = frame.cut_r[c]
          /\ c \notin OnPath

\* a path is a simple path of the graph G: no cluster twice, every cluster a
\* node, every two neighbours joined by an edge
SimplePathOf(path, G) ==
    /\ \A j, k \in DOMAIN path : path[j] = path[k] => j = k
    /\ \A k \in DOMAIN path : path[k] \in G.nodes
    /\ \A k \in 1..(Len(path) - 1) : <<path[k], path[k + 1]>> \in G.edges

\* C16: throughout Phase 1 of an edge, also once add_path_edges has dropped
\* clusters with equal cuts, every path of full_paths[edge] is a simple path
\* of the adjacency graph as it stands
C16_PathsSimpleInGraph ==
    (pc.phase = "create" /\ "edge_1" \in DOMAIN full_paths) =>
        \A j \in DOMAIN full_paths["edge_1"] :
            SimplePathOf(full_paths["edge_1"][j], frame.G)

(***************************************************************************)
(* SpecTrim: graph_create_unitigs on one edge with EdgeClusters clusters   *)
(* whose last base no read covers.  ln is what line 471 takes from the     *)
(* covbases column of samtools coverage, the number of covered bases, so   *)
(* it is one less than the length of the edge's sequence here, and every   *)
(* cluster interval ends before the end of the edge.                       *)
(***************************************************************************)
\* the base that the merged reads carry at position p where they differ from
\* the sequence of the edge
variant_base(p) == 0 - p

\* the consensus of the reads merged into OTHER_<edge>: at each variant
\* position it covers, the base of the edge or another base
OtherConsensus(sequence, items) ==
    [p \in DOMAIN items |-> IF items[p] THEN variant_base(p) ELSE sequence[p]]

InitTrim ==
    /\ edges = <<"edge_1">>
    /\ \E ln \in 1..EdgeLen :
        \E d \in [1..EdgeClusters -> ClusterInputs(ln)],
           M \in SUBSET EdgePairs(EdgeClusters),
           S \in SUBSET (1..Min2(PatchLen, ln + 1)) :
          \E items \in [S -> BOOLEAN] :
            /\ inp = ("edge_1" :> [EdgeInput(ln, d, M) EXCEPT !.other_consensus =
                                     OtherConsensus(Positions(0, ln + 1), items)])
            /\ graph = OneEdgeGraph("edge_1", ln + 1)
    /\ topology = [nodes |-> {"edge_1"}, edges |-> {}]
    /\ EmptyTables
    /\ frame = EmptyFrame
    /\ pc = [phase |-> "create", i |-> 1, step |-> "start"]
    /\ created = {}
    /\ IdleDist
    /\ IdleCons
    /\ IdleNest

NextTrim ==
    \/ Classify
    \/ BuildPathsGraph
    \/ FindFullPaths
    \/ AddPathEdges
    \/ AddPathLinks
    \/ Parental

SpecTrim == InitTrim /\ [][NextTrim]_vars

EdgeLength == Len(graph.segments[SegName("edge_1", 0)].sequence)

InEdge(cons) ==
    \A c \in DOMAIN cons :
        /\ cons[c].Start <= cons[c].Stop
        /\ 0 <= cons[c].Start /\ cons[c].Start < EdgeLength
        /\ 0 <= cons[c].Stop /\ cons[c].Stop < EdgeLength

\* C17: in every state of Phase 1, every entry of the interval table, as
\* read and as graph_create_unitigs has trimmed it, has Start <= Stop and
\* both within [0, edge length)
C17_IntervalsInEdge ==
    pc.phase = "create" => (InEdge(inp["edge_1"].cons) /\ InEdge(frame.cons))

\* C18: after remove_nested no two remaining nodes i, j have the interval
\* of i strictly containing the interval of j, joined by an edge or not
C18_NoNestedPairLeft ==
    nest_runs >= 1
        => \A i, j \in nest_G.nodes : ~StrictlyContains(nest_cons, i, j)

\* C19: when change_sec has been called for the edge, the stored sequence of
\* the edge's segment holds, at every variant position p covered by the
\* consensus of the merged 'other' reads, the consensus base at p, and is
\* unchanged everywhere else
C19_PatchedAtVariantPositions ==
    (pc.phase = "link" /\ pc.step = "start")
        => graph.segments[SegName("edge_1", 0)].sequence
              = patched_seq(Positions(0, inp["edge_1"].ln + 1),
                            inp["edge_1"].other_consensus)

\* the coverage that change_cov returned for edge_1, as its numerator over ln
ComputedCoverage ==
    change_cov(frame.cons, inp["edge_1"].ln, inp["edge_1"].clusters, OtherClusters)

\* some cluster of edge_1 was phased out: not all of them are 'other'
PhasedOut == Cardinality(inp["edge_1"].clusters) - Cardinality(OtherClusters) # 0

\* edge_1 is on remove_clusters once more than change_cov put it there
MarkedByCoveragePolicy ==
    Cardinality({k \in DOMAIN remove_clusters : remove_clusters[k] = "edge_1"})
        > (IF ComputedCoverage.remove THEN 1 ELSE 0)

\* C20: an edge with more than one cluster is marked for removal by the
\* coverage policy exactly when the coverage returned by change_cov is below
\* parental_min_coverage and at least one cluster was phased out
C20_MarkedOnLowCoverage ==
    ParentalDone
        => (MarkedByCoveragePolicy
              <=> (/\ ComputedCoverage.cov < parental_min_coverage * inp["edge_1"].ln
                   /\ PhasedOut))

====
